---------------------------- MODULE Spec2Model ----------------------------
(***************************************************************************)
(* A model of BSignals' concurrency core:                                  *)
(*   - SafeQueueVariant<T> (inc/BSignals/details/SafeQueueVariant.hpp): a  *)
(*     queue guarded by a std::shared_timed_mutex m and a                  *)
(*     std::condition_variable_any c, with a termination flag;             *)
(*   - WheeledThreadPool (inc/BSignals/details/WheeledThreadPool.h): a     *)
(*     ring of nThreads spokes fed round robin by run().                   *)
(* Every statement of a member function that touches shared state is one   *)
(* step of the calling thread; the client threads that call the member     *)
(* functions are the harnesses at the end of each part.  In the pool a     *)
(* spoke's lock is held for one step: a worker's dequeue() runs from its   *)
(* read of the flag to its wait or its return in one step, and so does     *)
(* each locked part of stop().                                             *)
(***************************************************************************)
EXTENDS Integers, Sequences, FiniteSets, TLC

(* ------------------------------ bounds --------------------------------- *)
\* number of client threads of the queue
NumThreads == 2
\* payloads are 1..MaxVal
MaxVal == 2
\* total number of member-function calls made by the client threads
MaxCalls == 3

\* number of threads that call the pool's run() and startup()
NumCallers == 2
\* total number of tasks passed to run()
MaxTasks == 5
\* the same, where the workers' progress is checked
MaxLiveTasks == 5
\* the same, where the finalizer runs
MaxShutTasks == 2
\* number of calling threads where the workers' progress is checked
NumLiveCallers == 1

Threads == 1..NumThreads
Values == 1..MaxVal
Callers == 1..NumCallers
Tasks == 1..MaxTasks
LiveTasks == 1..MaxLiveTasks
LiveCallers == 1..NumLiveCallers

\* static const uint32_t nThreads{4};
nThreads == 4
Spokes == 0..(nThreads - 1)

\* T(): the default-constructed object handed out once the queue is stopped
shutdownObject == 0

VARIABLES
    q,              \* std::queue<T> q: the items, head first
    terminateFlag,  \* bool terminateFlag, as the other threads' memory holds it
    flagBuf,        \* threads whose unsynchronised store to terminateFlag is not yet visible
    mExcl,          \* m: the thread holding it exclusively (a set of at most one)
    mShared,        \* m: the threads holding it shared
    pc,             \* each thread's position
    arg,            \* enqueue's parameter t
    slot,           \* where a push in flight read the end of q
    status,         \* what ended a thread's condition wait
    ret,            \* what the thread's last call returned
    track,          \* whether the client records enqd and deqd
    enqd,           \* history: the values pushed, in push order
    deqd,           \* history: the values dequeue() returned, in return order
    stopReturned,   \* history: some stop() call has returned
    calls           \* number of calls made so far

VARIABLES
    spokes,         \* threadPooledFunctions: the queue of each spoke of the ring
    sflag,          \* each spoke's terminateFlag: "clear", "stored" (line 109 has run and
                    \* the store is not yet published by a lock release) or "set"
    cursor,         \* the ring's position: the spoke the next getSpoke() yields
    isStarted,      \* bool isStarted
    tpLock,         \* std::mutex tpLock: the caller holding it (at most one)
    queueMonitors,  \* std::vector<std::thread>: the spoke index of each worker thread created
    cpc,            \* each caller's position
    cspoke,         \* the spoke getSpoke() handed the caller
    ctask,          \* the task the caller passed to run()
    wpc,            \* each worker's position
    wtask,          \* the task a worker dequeued
    fpc,            \* the finalizer's position
    fidx,           \* the finalizer's loop index
    joined,         \* the worker threads the finalizer has joined, in order
    submitted,      \* history: number of getSpoke() calls made by run()
    landed,         \* history: the tasks enqueued on each spoke, in order
    done            \* history: the tasks each worker has run, in order

\* the state of the shutdown
shut == <<sflag, fpc, fidx, joined>>

pvars == <<spokes, cursor, isStarted, tpLock, queueMonitors, cpc, cspoke, ctask,
           wpc, wtask, submitted, landed, done, shut>>

qvars == <<q, terminateFlag, flagBuf, mExcl, mShared, pc, arg, slot, status,
           ret, track, enqd, deqd, stopReturned, calls>>

vars == <<qvars, pvars>>

(* ------------------------- return records ------------------------------ *)
\* op: the member function; val: the T returned (ret.first); found: ret.second
\* or the bool returned; sentinel: the value is shutdownObject handed out for a
\* stop; took: the call popped q; ub: it ran front()/pop() on an empty q;
\* blocked: it waited on c; cause: what ended that wait; after: a stop() had
\* returned when the call was made; k: q.size() when the call returned; n: the
\* number of pushes made by then; had: q.size() when the call began to wait.
NoRet ==
    [op |-> "none", val |-> shutdownObject, found |-> FALSE, sentinel |-> FALSE,
     took |-> FALSE, ub |-> FALSE, blocked |-> FALSE, cause |-> "none",
     after |-> FALSE, k |-> 0, n |-> 0, had |-> 0]

(* ----------------------- mutex and condition --------------------------- *)
\* std::unique_lock / std::lock_guard on a shared_timed_mutex: lock()
CanLockExclusive == mExcl = {} /\ mShared = {}
\* std::shared_lock: lock_shared()
CanLockShared == mExcl = {}

WaitLabels == {"deq_wait", "wfd_wait", "w_wait", "wt_wait"}
TimedWaitLabels == {"wfd_wait", "wt_wait"}

\* where a thread continues when its wait on c ends: it re-locks m first
RelockOf(l) ==
    CASE l = "deq_wait" -> "deq_relock"
      [] l = "wfd_wait" -> "wfd_relock"
      [] l = "w_wait"   -> "w_relock"
      [] l = "wt_wait"  -> "wt_relock"
      [] OTHER          -> l

Waiters == {u \in Threads : pc[u] \in WaitLabels}

\* the value of terminateFlag a read by thread t yields
FlagSeenBy(t) == terminateFlag \/ t \in flagBuf


\* a thread's call returns r
Return(t, r) ==
    /\ pc' = [pc EXCEPT ![t] = "idle"]
    /\ ret' = [ret EXCEPT ![t] = r]

\* a call that waited on c returns r
ReturnWoken(t, r) ==
    /\ Return(t, [r EXCEPT !.blocked = (status[t] # "none"), !.cause = status[t]])
    /\ status' = [status EXCEPT ![t] = "none"]

\* the record of thread t's call of op, before the call fills it in
R(t, op) == [NoRet EXCEPT !.op = op, !.after = ret[t].after, !.had = ret[t].had]

\* a thread moves to label l, nothing is returned yet
Goto(t, l) ==
    /\ pc' = [pc EXCEPT ![t] = l]
    /\ UNCHANGED ret

\* c.notify_one(): one of the threads waiting on c, if any, stops waiting;
\* the caller t moves to label l
NotifyOne(t, l, cause) ==
    IF Waiters = {}
    THEN /\ pc' = [pc EXCEPT ![t] = l]
         /\ UNCHANGED status
    ELSE \E w \in Waiters :
            /\ pc' = [pc EXCEPT ![t] = l, ![w] = RelockOf(pc[w])]
            /\ status' = [status EXCEPT ![w] = cause]

\* c.notify_all(): every thread waiting on c stops waiting; the caller t
\* moves to label l
NotifyAll(t, l, cause) ==
    /\ pc' = [u \in Threads |->
                IF u = t THEN l
                ELSE IF u \in Waiters THEN RelockOf(pc[u]) ELSE pc[u]]
    /\ status' = [u \in Threads |-> IF u \in Waiters THEN cause ELSE status[u]]

\* c.wait(lock) / c.wait_for(lock, timeout): m is released and the thread
\* waits on c, in one step
BeginWait(t, l) ==
    /\ mExcl' = {}
    /\ pc' = [pc EXCEPT ![t] = l]
    /\ status' = [status EXCEPT ![t] = "none"]

\* the end of a wait: the thread holds m exclusively again
Relock(t, from, to) ==
    /\ pc[t] = from
    /\ CanLockExclusive
    /\ mExcl' = {t}
    /\ Goto(t, to)
    /\ UNCHANGED <<pvars, track, q, terminateFlag, flagBuf, mShared, arg, slot,
                   status, enqd, deqd, stopReturned, calls>>

\* a unique_lock / lock_guard is taken at the head of a member function
LockExclusive(t, from, to) ==
    /\ pc[t] = from
    /\ CanLockExclusive
    /\ mExcl' = {t}
    /\ Goto(t, to)
    /\ UNCHANGED <<pvars, track, q, terminateFlag, flagBuf, mShared, arg, slot,
                   status, enqd, deqd, stopReturned, calls>>

(* ------------------------------ enqueue -------------------------------- *)
\* q.push(t) on a std::queue reads the end of the sequence, stores the item
\* there and stores the new end. Under the shared lock several pushes can be
\* in flight: a push that read the end at i stores its item at i and ends
\* the sequence after it, whatever the others stored meanwhile. The places
\* between a shorter sequence and i hold whatever was there.
PushOutcomes(s, i, v) ==
    IF i <= Len(s)
    THEN {SubSeq(s, 1, i) \o <<v>>}
    ELSE {s \o pad \o <<v>> : pad \in [1..(i - Len(s)) -> Values]}

\* std::shared_lock<std::shared_timed_mutex> lock(m);
EnqLock(t) ==
    /\ pc[t] = "enq_lock"
    /\ CanLockShared
    /\ mShared' = mShared \cup {t}
    /\ Goto(t, "enq_read")
    /\ UNCHANGED <<pvars, track, q, terminateFlag, flagBuf, mExcl, arg, slot,
                   status, enqd, deqd, stopReturned, calls>>

\* q.push(t): the read of the end
EnqPushRead(t) ==
    /\ pc[t] = "enq_read"
    /\ slot' = [slot EXCEPT ![t] = Len(q)]
    /\ Goto(t, "enq_write")
    /\ UNCHANGED <<pvars, track, q, terminateFlag, flagBuf, mExcl, mShared,
                   arg, status, enqd, deqd, stopReturned, calls>>

\* q.push(t): the stores
EnqPushWrite(t) ==
    /\ pc[t] = "enq_write"
    /\ q' \in PushOutcomes(q, slot[t], arg[t])
    /\ enqd' = IF track THEN Append(enqd, arg[t]) ELSE enqd
    /\ arg' = [arg EXCEPT ![t] = shutdownObject]
    /\ slot' = [slot EXCEPT ![t] = 0]
    /\ Goto(t, "enq_notify")
    /\ UNCHANGED <<pvars, track, terminateFlag, flagBuf, mExcl, mShared,
                   status, deqd, stopReturned, calls>>

\* (mutant) enqueue() pushes and notifies nobody
EnqNotifyNobody(t) ==
    /\ pc[t] = "enq_notify"
    /\ Goto(t, "enq_unlock")
    /\ UNCHANGED <<pvars, track, q, terminateFlag, flagBuf, mExcl, mShared,
                   arg, slot, status, enqd, deqd, stopReturned, calls>>

\* c.notify_one();
EnqNotify(t) ==
    /\ pc[t] = "enq_notify"
    /\ NotifyOne(t, "enq_unlock", "enqueue")
    /\ UNCHANGED <<pvars, track, q, terminateFlag, flagBuf, mExcl, mShared,
                   arg, slot, ret, enqd, deqd, stopReturned, calls>>

\* the shared lock is released and enqueue returns
EnqUnlock(t) ==
    /\ pc[t] = "enq_unlock"
    /\ mShared' = mShared \ {t}
    /\ Return(t, R(t, "enqueue"))
    /\ UNCHANGED <<pvars, track, q, terminateFlag, flagBuf, mExcl, arg, slot,
                   status, enqd, deqd, stopReturned, calls>>

enqueue(t) ==
    \/ EnqLock(t)
    \/ EnqPushRead(t)
    \/ EnqPushWrite(t)
    \/ EnqNotify(t)
    \/ EnqUnlock(t)

(* ------------------------------ dequeue -------------------------------- *)
\* std::unique_lock<std::shared_timed_mutex> lock(m);
DeqLock(t) == LockExclusive(t, "deq_lock", "deq_check")

\* (mutant) dequeue() goes on to the loop without reading terminateFlag
DeqCheckNoFlag(t) ==
    /\ pc[t] = "deq_check"
    /\ Goto(t, "deq_loop")
    /\ UNCHANGED <<pvars, track, q, terminateFlag, flagBuf, mExcl, mShared, arg,
                   slot, status, enqd, deqd, stopReturned, calls>>

\* if (terminateFlag) return shutdownObject;   (before the loop, line 39, and
\* after each wait, line 42)
DeqCheck(t) ==
    /\ pc[t] = "deq_check"
    /\ IF FlagSeenBy(t)
       THEN /\ mExcl' = {}
            /\ ReturnWoken(t, [R(t, "dequeue") EXCEPT !.sentinel = TRUE])
       ELSE /\ Goto(t, "deq_loop")
            /\ UNCHANGED <<mExcl, status>>
    /\ UNCHANGED <<pvars, track, q, terminateFlag, flagBuf, mShared, arg, slot,
                   enqd, deqd, stopReturned, calls>>

\* while (q.empty()) c.wait(lock);   and, past the loop,
\* T val = q.front(); q.pop(); return val;
DeqLoop(t) ==
    /\ pc[t] = "deq_loop"
    /\ IF q = <<>>
       THEN /\ BeginWait(t, "deq_wait")
            /\ UNCHANGED <<q, ret, deqd>>
       ELSE /\ q' = Tail(q)
            /\ mExcl' = {}
            /\ ReturnWoken(t, [R(t, "dequeue") EXCEPT
                                 !.val = Head(q), !.found = TRUE, !.took = TRUE])
            /\ deqd' = IF track THEN Append(deqd, Head(q)) ELSE deqd
    /\ UNCHANGED <<pvars, track, terminateFlag, flagBuf, mShared, arg, slot,
                   enqd, stopReturned, calls>>

\* (mutant) after c.wait(lock) the loop tests q.empty() again without
\* reading terminateFlag
DeqRelockNoCheck(t) == Relock(t, "deq_relock", "deq_loop")

\* c.wait(lock) returns: m is locked again, then line 42 checks the flag
DeqRelock(t) == Relock(t, "deq_relock", "deq_check")

dequeue(t) ==
    \/ DeqLock(t)
    \/ DeqCheck(t)
    \/ DeqLoop(t)
    \/ DeqRelock(t)

(* --------------------------- wait_for_dequeue --------------------------- *)
\* what front() and pop() leave behind on an empty std::queue: the end of
\* the sequence moves before its start, and the queue reads as empty or as
\* holding whatever the storage held
PopEmptyOutcomes == {<<>>} \cup {<<v>> : v \in Values}

\* std::unique_lock<std::shared_timed_mutex> lock(m);
WfdLock(t) == LockExclusive(t, "wfd_lock", "wfd_check")

\* if (terminateFlag) return ret;   else c.wait_for(lock, timeout)
WfdCheck(t) ==
    /\ pc[t] = "wfd_check"
    /\ IF FlagSeenBy(t)
       THEN /\ mExcl' = {}
            /\ Return(t, R(t, "wait_for_dequeue"))
            /\ UNCHANGED status
       ELSE /\ BeginWait(t, "wfd_wait")
            /\ ret' = [ret EXCEPT ![t].had = Len(q)]
    /\ UNCHANGED <<pvars, track, q, terminateFlag, flagBuf, mShared, arg, slot,
                   enqd, deqd, stopReturned, calls>>

\* c.wait_for returns: m is locked again
WfdRelock(t) == Relock(t, "wfd_relock", "wfd_after")

\* bool success = (... == std::cv_status::no_timeout);
\* if (!success) return ret;
\* ret.first = q.front(); q.pop(); ret.second = true; return ret;
WfdAfter(t) ==
    /\ pc[t] = "wfd_after"
    /\ mExcl' = {}
    /\ IF status[t] = "timeout"
       THEN /\ ReturnWoken(t, R(t, "wait_for_dequeue"))
            /\ UNCHANGED q
       ELSE IF q # <<>>
       THEN /\ q' = Tail(q)
            /\ ReturnWoken(t, [R(t, "wait_for_dequeue") EXCEPT
                                 !.val = Head(q), !.found = TRUE, !.took = TRUE])
       ELSE /\ q' \in PopEmptyOutcomes
            /\ \E v \in Values \cup {shutdownObject} :
                  ReturnWoken(t, [R(t, "wait_for_dequeue") EXCEPT
                                    !.val = v, !.found = TRUE, !.ub = TRUE])
    /\ UNCHANGED <<pvars, track, terminateFlag, flagBuf, mShared, arg, slot,
                   enqd, deqd, stopReturned, calls>>

wait_for_dequeue(t) ==
    \/ WfdLock(t)
    \/ WfdCheck(t)
    \/ WfdRelock(t)
    \/ WfdAfter(t)

(* --------------------------- nonBlockingDequeue ------------------------- *)
\* std::unique_lock<std::shared_timed_mutex> lock(m);
NbdLock(t) == LockExclusive(t, "nbd_lock", "nbd_body")

\* if (!q.empty()) { ret.first = q.front(); q.pop(); ret.second = true; }
\* else ret.second = false;   return ret;
NbdBody(t) ==
    /\ pc[t] = "nbd_body"
    /\ mExcl' = {}
    /\ IF q # <<>>
       THEN /\ q' = Tail(q)
            /\ Return(t, [R(t, "nonBlockingDequeue") EXCEPT
                            !.val = Head(q), !.found = TRUE, !.took = TRUE])
       ELSE /\ Return(t, R(t, "nonBlockingDequeue"))
            /\ UNCHANGED q
    /\ UNCHANGED <<pvars, track, terminateFlag, flagBuf, mShared, arg, slot,
                   status, enqd, deqd, stopReturned, calls>>

nonBlockingDequeue(t) ==
    \/ NbdLock(t)
    \/ NbdBody(t)

(* -------------------------------- clear --------------------------------- *)
\* std::lock_guard<std::shared_timed_mutex> lock(m);
ClearLock(t) == LockExclusive(t, "clear_lock", "clear_body")

\* while (!q.empty()) q.pop();
ClearBody(t) ==
    /\ pc[t] = "clear_body"
    /\ mExcl' = {}
    /\ q' = <<>>
    /\ Return(t, [R(t, "clear") EXCEPT !.took = (q # <<>>)])
    /\ UNCHANGED <<pvars, track, terminateFlag, flagBuf, mShared, arg, slot,
                   status, enqd, deqd, stopReturned, calls>>

clear(t) ==
    \/ ClearLock(t)
    \/ ClearBody(t)

(* ----------------------------- wakeWaiters ------------------------------ *)
\* std::unique_lock<std::shared_timed_mutex> lock(m);
\* (called by a client, or by stop() at line 110)
WwLock(t) ==
    \/ LockExclusive(t, "ww_lock", "ww_notify")
    \/ LockExclusive(t, "stop_ww_lock", "stop_ww_notify")

\* c.notify_all();   and the lock is released, which publishes the stores
\* the thread made before it
WwNotify(t) ==
    /\ pc[t] \in {"ww_notify", "stop_ww_notify"}
    /\ mExcl' = {}
    /\ terminateFlag' = (terminateFlag \/ t \in flagBuf)
    /\ flagBuf' = flagBuf \ {t}
    /\ IF pc[t] = "ww_notify"
       THEN /\ NotifyAll(t, "idle", "wakeWaiters")
            /\ ret' = [ret EXCEPT ![t] = R(t, "wakeWaiters")]
       ELSE /\ NotifyAll(t, "stop_lock", "stop")
            /\ UNCHANGED ret
    /\ UNCHANGED <<pvars, track, q, mShared, arg, slot, enqd, deqd,
                   stopReturned, calls>>

wakeWaiters(t) ==
    \/ WwLock(t)
    \/ WwNotify(t)

(* --------------------------------- stop --------------------------------- *)
\* terminateFlag = true;   a plain store made without holding m: the other
\* threads see it at once or later, and at the latest when this thread
\* releases m
StopWrite(t) ==
    /\ pc[t] = "stop_write"
    /\ flagBuf' = flagBuf \cup {t}
    /\ Goto(t, "stop_ww_lock")
    /\ UNCHANGED <<pvars, track, q, terminateFlag, mExcl, mShared, arg, slot,
                   status, enqd, deqd, stopReturned, calls>>

\* the store of line 109 becomes visible to the other threads
FlagVisible(t) ==
    /\ t \in flagBuf
    /\ terminateFlag' = TRUE
    /\ flagBuf' = flagBuf \ {t}
    /\ UNCHANGED <<pvars, track, q, mExcl, mShared, pc, arg, slot, status, ret,
                   enqd, deqd, stopReturned, calls>>

\* std::unique_lock<std::shared_timed_mutex> lock(m);   (line 111)
StopLock(t) == LockExclusive(t, "stop_lock", "stop_notify")

\* (mutant) stop() also pops every item
StopNotifyDrains(t) ==
    /\ pc[t] = "stop_notify"
    /\ mExcl' = {}
    /\ terminateFlag' = (terminateFlag \/ t \in flagBuf)
    /\ flagBuf' = flagBuf \ {t}
    /\ NotifyAll(t, "idle", "stop")
    /\ ret' = [ret EXCEPT ![t] = R(t, "stop")]
    /\ stopReturned' = TRUE
    /\ q' = <<>>
    /\ UNCHANGED <<pvars, track, mShared, arg, slot, enqd, deqd, calls>>

\* c.notify_all();   and stop returns
StopNotify(t) ==
    /\ pc[t] = "stop_notify"
    /\ mExcl' = {}
    /\ terminateFlag' = (terminateFlag \/ t \in flagBuf)
    /\ flagBuf' = flagBuf \ {t}
    /\ NotifyAll(t, "idle", "stop")
    /\ ret' = [ret EXCEPT ![t] = R(t, "stop")]
    /\ stopReturned' = TRUE
    /\ UNCHANGED <<pvars, track, q, mShared, arg, slot, enqd, deqd, calls>>

stop(t) ==
    \/ StopWrite(t)
    \/ FlagVisible(t)
    \/ StopLock(t)
    \/ StopNotify(t)

(* --------------------------------- wait --------------------------------- *)
\* std::unique_lock<std::shared_timed_mutex> lock(m);
WaitLock(t) == LockExclusive(t, "w_lock", "w_check")

\* if (terminateFlag) return;   if (q.empty()) c.wait(lock);
WaitCheck(t) ==
    /\ pc[t] = "w_check"
    /\ IF FlagSeenBy(t) \/ q # <<>>
       THEN /\ mExcl' = {}
            /\ Return(t, [R(t, "wait") EXCEPT
                            !.sentinel = FlagSeenBy(t), !.k = Len(q)])
            /\ UNCHANGED status
       ELSE /\ BeginWait(t, "w_wait")
            /\ UNCHANGED ret
    /\ UNCHANGED <<pvars, track, q, terminateFlag, flagBuf, mShared, arg, slot,
                   enqd, deqd, stopReturned, calls>>

\* c.wait(lock) returns: m is locked again
WaitRelock(t) == Relock(t, "w_relock", "w_ret")

\* wait returns after its c.wait(lock)
WaitRet(t) ==
    /\ pc[t] = "w_ret"
    /\ mExcl' = {}
    /\ ReturnWoken(t, [R(t, "wait") EXCEPT
                         !.sentinel = FlagSeenBy(t), !.k = Len(q)])
    /\ UNCHANGED <<pvars, track, q, terminateFlag, flagBuf, mShared, arg, slot,
                   enqd, deqd, stopReturned, calls>>

wait(t) ==
    \/ WaitLock(t)
    \/ WaitCheck(t)
    \/ WaitRelock(t)
    \/ WaitRet(t)

(* ----------------------------- wait(timeout) ---------------------------- *)
\* std::unique_lock<std::shared_timed_mutex> lock(m);
TimedWaitLock(t) == LockExclusive(t, "wt_lock", "wt_check")

\* if (!q.empty()) return true;   if (terminateFlag) return false;
\* otherwise c.wait_for(lock, ...)
TimedWaitCheck(t) ==
    /\ pc[t] = "wt_check"
    /\ IF q # <<>>
       THEN /\ mExcl' = {}
            /\ Return(t, [R(t, "timed_wait") EXCEPT !.found = TRUE, !.k = Len(q)])
            /\ UNCHANGED status
       ELSE IF FlagSeenBy(t)
       THEN /\ mExcl' = {}
            /\ Return(t, [R(t, "timed_wait") EXCEPT !.sentinel = TRUE])
            /\ UNCHANGED status
       ELSE /\ BeginWait(t, "wt_wait")
            /\ UNCHANGED ret
    /\ UNCHANGED <<pvars, track, q, terminateFlag, flagBuf, mShared, arg, slot,
                   enqd, deqd, stopReturned, calls>>

\* c.wait_for returns: m is locked again
TimedWaitRelock(t) == Relock(t, "wt_relock", "wt_ret")

\* return (c.wait_for(...) == std::cv_status::no_timeout);
TimedWaitRet(t) ==
    /\ pc[t] = "wt_ret"
    /\ mExcl' = {}
    /\ ReturnWoken(t, [R(t, "timed_wait") EXCEPT
                         !.found = (status[t] # "timeout"),
                         !.sentinel = FlagSeenBy(t), !.k = Len(q)])
    /\ UNCHANGED <<pvars, track, q, terminateFlag, flagBuf, mShared, arg, slot,
                   enqd, deqd, stopReturned, calls>>

timed_wait(t) ==
    \/ TimedWaitLock(t)
    \/ TimedWaitCheck(t)
    \/ TimedWaitRelock(t)
    \/ TimedWaitRet(t)

(* --------------------------------- size --------------------------------- *)
\* std::lock_guard<std::shared_timed_mutex> lock(m);
SizeLock(t) == LockExclusive(t, "size_lock", "size_body")

\* return q.size();
SizeBody(t) ==
    /\ pc[t] = "size_body"
    /\ mExcl' = {}
    /\ Return(t, [R(t, "size") EXCEPT !.k = Len(q), !.n = Len(enqd)])
    /\ UNCHANGED <<pvars, track, q, terminateFlag, flagBuf, mShared, arg, slot,
                   status, enqd, deqd, stopReturned, calls>>

size(t) ==
    \/ SizeLock(t)
    \/ SizeBody(t)

(* ----------------------- the condition variable ------------------------- *)
\* a wait on c may end with no notification (a spurious wakeup)
SpuriousWakeup(t) ==
    /\ pc[t] \in WaitLabels
    /\ pc' = [pc EXCEPT ![t] = RelockOf(pc[t])]
    /\ status' = [status EXCEPT ![t] = "spurious"]
    /\ UNCHANGED <<pvars, track, q, terminateFlag, flagBuf, mExcl, mShared,
                   arg, slot, ret, enqd, deqd, stopReturned, calls>>

\* c.wait_for ends with cv_status::timeout
Timeout(t) ==
    /\ pc[t] \in TimedWaitLabels
    /\ pc' = [pc EXCEPT ![t] = RelockOf(pc[t])]
    /\ status' = [status EXCEPT ![t] = "timeout"]
    /\ UNCHANGED <<pvars, track, q, terminateFlag, flagBuf, mExcl, mShared,
                   arg, slot, ret, enqd, deqd, stopReturned, calls>>

(* ------------------------------- clients -------------------------------- *)
\* the first label of each member function
EntryOf(op) ==
    CASE op = "enqueue"            -> "enq_lock"
      [] op = "dequeue"            -> "deq_lock"
      [] op = "wait_for_dequeue"   -> "wfd_lock"
      [] op = "nonBlockingDequeue" -> "nbd_lock"
      [] op = "clear"              -> "clear_lock"
      [] op = "wakeWaiters"        -> "ww_lock"
      [] op = "wait"               -> "w_lock"
      [] op = "timed_wait"         -> "wt_lock"
      [] op = "stop"               -> "stop_write"
      [] op = "size"               -> "size_lock"

\* an idle thread calls member function op with argument v
Call(t, op, v) ==
    /\ pc[t] = "idle"
    /\ calls < MaxCalls
    /\ calls' = calls + 1
    /\ pc' = [pc EXCEPT ![t] = EntryOf(op)]
    /\ arg' = [arg EXCEPT ![t] = v]
    /\ ret' = [ret EXCEPT ![t] = [NoRet EXCEPT !.after = stopReturned]]
    /\ UNCHANGED <<pvars, track, q, terminateFlag, flagBuf, mExcl, mShared,
                   slot, status, enqd, deqd, stopReturned>>

\* the constructor: terminateFlag(false), q(), m(), c()
QueueInit ==
    /\ q = <<>>
    /\ terminateFlag = FALSE
    /\ flagBuf = {}
    /\ mExcl = {}
    /\ mShared = {}
    /\ pc = [t \in Threads |-> "idle"]
    /\ arg = [t \in Threads |-> shutdownObject]
    /\ slot = [t \in Threads |-> 0]
    /\ status = [t \in Threads |-> "none"]
    /\ ret = [t \in Threads |-> NoRet]
    /\ enqd = <<>>
    /\ deqd = <<>>
    /\ stopReturned = FALSE
    /\ calls = 0

(* ========================== WheeledThreadPool ========================== *)
\* the static members: the ring of nThreads empty spokes, none of them
\* stopped, isStarted false, no worker thread yet; the finalizer has not run
PoolInit ==
    /\ spokes = [s \in Spokes |-> <<>>]
    /\ sflag = [s \in Spokes |-> "clear"]
    /\ cursor = 0
    /\ isStarted = FALSE
    /\ tpLock = {}
    /\ queueMonitors = <<>>
    /\ cpc = [c \in Callers |-> "idle"]
    /\ cspoke = [c \in Callers |-> 0]
    /\ ctask = [c \in Callers |-> 0]
    /\ wpc = [w \in Spokes |-> "none"]
    /\ wtask = [w \in Spokes |-> 0]
    /\ fpc = "none"
    /\ fidx = 0
    /\ joined = <<>>
    /\ submitted = 0
    /\ landed = [s \in Spokes |-> <<>>]
    /\ done = [w \in Spokes |-> <<>>]

\* Wheel::getSpoke(): the spoke at the ring's position; the position then
\* advances by one, modulo the number of spokes
getSpoke == cursor
Advance(i) == (i + 1) % nThreads

\* enqueue(task) on a spoke's queue: the task is added at the tail
SpokeEnqueue(s, task) == [spokes EXCEPT ![s] = Append(spokes[s], task)]

\* a notification on spoke s: its worker, the only thread that waits on the
\* spoke, stops waiting; its dequeue() goes on at line 42, which reads the
\* flag and then tests q.empty() as a call of dequeue() does from line 39
Wake(s) == [wpc EXCEPT ![s] = IF @ = "wait" THEN "dequeue" ELSE @]

\* run(task): threadPooledFunctions.getSpoke()
RunGetSpoke(c) ==
    /\ cpc[c] = "idle"
    /\ submitted' = submitted + 1
    /\ ctask' = [ctask EXCEPT ![c] = submitted + 1]
    /\ cspoke' = [cspoke EXCEPT ![c] = getSpoke]
    /\ cursor' = Advance(cursor)
    /\ cpc' = [cpc EXCEPT ![c] = "run_enqueue"]
    /\ UNCHANGED <<qvars, shut, spokes, isStarted, tpLock, queueMonitors, wpc,
                   wtask, landed, done>>

\* (mutant) run() enqueues on the spoke that holds the fewest tasks
RunEnqueueShortest(c) ==
    LET s == CHOOSE s \in Spokes :
                \A r \in Spokes : Len(spokes[s]) <= Len(spokes[r])
    IN  /\ cpc[c] = "run_enqueue"
        /\ spokes' = SpokeEnqueue(s, ctask[c])
        /\ wpc' = Wake(s)
        /\ landed' = [landed EXCEPT ![s] = Append(@, ctask[c])]
        /\ cpc' = [cpc EXCEPT ![c] = "idle"]
        /\ ctask' = [ctask EXCEPT ![c] = 0]
        /\ cspoke' = [cspoke EXCEPT ![c] = 0]
        /\ UNCHANGED <<qvars, shut, cursor, isStarted, tpLock, queueMonitors,
                       wtask, submitted, done>>

\* (mutant) run() stores the task as the spoke's only item
RunEnqueueOverwrites(c) ==
    /\ cpc[c] = "run_enqueue"
    /\ spokes' = [spokes EXCEPT ![cspoke[c]] = <<ctask[c]>>]
    /\ wpc' = Wake(cspoke[c])
    /\ landed' = [landed EXCEPT ![cspoke[c]] = Append(@, ctask[c])]
    /\ cpc' = [cpc EXCEPT ![c] = "idle"]
    /\ ctask' = [ctask EXCEPT ![c] = 0]
    /\ cspoke' = [cspoke EXCEPT ![c] = 0]
    /\ UNCHANGED <<qvars, shut, cursor, isStarted, tpLock, queueMonitors, wtask,
                   submitted, done>>

\* (mutant) run() puts the task at the head of the spoke
RunEnqueueAtHead(c) ==
    /\ cpc[c] = "run_enqueue"
    /\ spokes' = [spokes EXCEPT ![cspoke[c]] = <<ctask[c]>> \o @]
    /\ wpc' = Wake(cspoke[c])
    /\ landed' = [landed EXCEPT ![cspoke[c]] = Append(@, ctask[c])]
    /\ cpc' = [cpc EXCEPT ![c] = "idle"]
    /\ ctask' = [ctask EXCEPT ![c] = 0]
    /\ cspoke' = [cspoke EXCEPT ![c] = 0]
    /\ UNCHANGED <<qvars, shut, cursor, isStarted, tpLock, queueMonitors, wtask,
                   submitted, done>>

\* (mutant) run() starts the pool when it is not started
RunEnqueueStarts(c) ==
    /\ cpc[c] = "run_enqueue"
    /\ spokes' = SpokeEnqueue(cspoke[c], ctask[c])
    /\ landed' = [landed EXCEPT ![cspoke[c]] = Append(@, ctask[c])]
    /\ cpc' = [cpc EXCEPT ![c] = "idle"]
    /\ ctask' = [ctask EXCEPT ![c] = 0]
    /\ cspoke' = [cspoke EXCEPT ![c] = 0]
    /\ IF isStarted
       THEN /\ wpc' = Wake(cspoke[c])
            /\ UNCHANGED <<isStarted, queueMonitors>>
       ELSE /\ isStarted' = TRUE
            /\ queueMonitors' = [i \in 1..nThreads |-> i - 1]
            /\ wpc' = [w \in Spokes |-> "dequeue"]
    /\ UNCHANGED <<qvars, shut, cursor, tpLock, wtask, submitted, done>>

\* run(task): .enqueue(task) on the spoke getSpoke() returned; the spoke's
\* waiting worker is notified
RunEnqueue(c) ==
    /\ cpc[c] = "run_enqueue"
    /\ spokes' = SpokeEnqueue(cspoke[c], ctask[c])
    /\ wpc' = Wake(cspoke[c])
    /\ landed' = [landed EXCEPT ![cspoke[c]] = Append(@, ctask[c])]
    /\ cpc' = [cpc EXCEPT ![c] = "idle"]
    /\ ctask' = [ctask EXCEPT ![c] = 0]
    /\ cspoke' = [cspoke EXCEPT ![c] = 0]
    /\ UNCHANGED <<qvars, shut, cursor, isStarted, tpLock, queueMonitors, wtask,
                   submitted, done>>

\* startup() is called
StartupCall(c) ==
    /\ cpc[c] = "idle"
    /\ cpc' = [cpc EXCEPT ![c] = "startup_lock"]
    /\ UNCHANGED <<qvars, shut, spokes, cursor, isStarted, tpLock, queueMonitors,
                   cspoke, ctask, wpc, wtask, submitted, landed,
                   done>>

\* startup(): the caller takes tpLock
StartupLock(c) ==
    /\ cpc[c] = "startup_lock"
    /\ tpLock = {}
    /\ tpLock' = {c}
    /\ cpc' = [cpc EXCEPT ![c] = "startup_body"]
    /\ UNCHANGED <<qvars, shut, spokes, cursor, isStarted, queueMonitors, cspoke,
                   ctask, wpc, wtask, submitted, landed, done>>

\* (mutant) startup() creates the worker threads whether or not the pool is
\* started
StartupBodyUnguarded(c) ==
    /\ cpc[c] = "startup_body"
    /\ tpLock' = {}
    /\ cpc' = [cpc EXCEPT ![c] = "idle"]
    /\ isStarted' = TRUE
    /\ queueMonitors' = queueMonitors \o [i \in 1..nThreads |-> i - 1]
    /\ wpc' = [w \in Spokes |-> IF wpc[w] = "none" THEN "dequeue" ELSE wpc[w]]
    /\ UNCHANGED <<qvars, shut, spokes, cursor, cspoke, ctask, wtask, submitted,
                   landed, done>>

\* startup(): if the pool is not started, one worker thread per spoke index
\* 0..nThreads-1 is created and isStarted is set; tpLock is released
StartupBody(c) ==
    /\ cpc[c] = "startup_body"
    /\ tpLock' = {}
    /\ cpc' = [cpc EXCEPT ![c] = "idle"]
    /\ IF isStarted
       THEN UNCHANGED <<isStarted, queueMonitors, wpc>>
       ELSE /\ isStarted' = TRUE
            /\ queueMonitors' = queueMonitors \o [i \in 1..nThreads |-> i - 1]
            /\ wpc' = [w \in Spokes |-> "dequeue"]
    /\ UNCHANGED <<qvars, shut, spokes, cursor, cspoke, ctask, wtask, submitted,
                   landed, done>>

startup(c) ==
    \/ StartupCall(c)
    \/ StartupLock(c)
    \/ StartupBody(c)

(* ------------------------ the worker of a spoke ------------------------- *)
\* the values a read of spoke s's terminateFlag can yield: a store made
\* without the lock is seen at once or later, and at the latest once the
\* storing thread has released the spoke's lock
FlagReads(s) ==
    IF sflag[s] = "set" THEN {TRUE}
    ELSE IF sflag[s] = "stored" THEN {TRUE, FALSE}
    ELSE {FALSE}

\* dequeue() on the worker's spoke, from a read of the flag to its return or
\* its wait, all under the spoke's lock:
\* if (terminateFlag) return shutdownObject;  (the worker leaves its loop)
\* while (q.empty()) c.wait(lock);   T val = q.front(); q.pop(); return val;
SpokeDequeue(w, seen) ==
    IF seen
    THEN /\ wpc' = [wpc EXCEPT ![w] = "exited"]
         /\ UNCHANGED <<spokes, wtask>>
    ELSE IF spokes[w] = <<>>
    THEN /\ wpc' = [wpc EXCEPT ![w] = "wait"]
         /\ UNCHANGED <<spokes, wtask>>
    ELSE /\ wtask' = [wtask EXCEPT ![w] = Head(spokes[w])]
         /\ spokes' = [spokes EXCEPT ![w] = Tail(spokes[w])]
         /\ wpc' = [wpc EXCEPT ![w] = "execute"]

\* (mutant) dequeue() hands out the items left before it looks at the flag
WorkerDequeueDrains(w) ==
    /\ wpc[w] = "dequeue"
    /\ \E seen \in FlagReads(w) : SpokeDequeue(w, seen /\ spokes[w] = <<>>)
    /\ UNCHANGED <<qvars, shut, cursor, isStarted, tpLock, queueMonitors, cpc,
                   cspoke, ctask, submitted, landed, done>>

\* queueListener(index): the worker calls dequeue() on its spoke (line 39
\* on), or its wait in dequeue() has ended (line 42 on)
WorkerDequeue(w) ==
    /\ wpc[w] = "dequeue"
    /\ \E seen \in FlagReads(w) : SpokeDequeue(w, seen)
    /\ UNCHANGED <<qvars, shut, cursor, isStarted, tpLock, queueMonitors, cpc,
                   cspoke, ctask, submitted, landed, done>>

\* the worker's wait ends with no notification
WorkerSpurious(w) ==
    /\ wpc[w] = "wait"
    /\ wpc' = Wake(w)
    /\ UNCHANGED <<qvars, shut, spokes, cursor, isStarted, tpLock, queueMonitors,
                   cpc, cspoke, ctask, wtask, submitted, landed,
                   done>>

\* queueListener(index): the task runs to its end and the worker loops
WorkerExecute(w) ==
    /\ wpc[w] = "execute"
    /\ done' = [done EXCEPT ![w] = Append(@, wtask[w])]
    /\ wtask' = [wtask EXCEPT ![w] = 0]
    /\ wpc' = [wpc EXCEPT ![w] = "dequeue"]
    /\ UNCHANGED <<qvars, shut, spokes, cursor, isStarted, tpLock, queueMonitors,
                   cpc, cspoke, ctask, submitted, landed>>

queueListener(w) ==
    \/ WorkerDequeue(w)
    \/ WorkerExecute(w)

(* ---------------------------- the finalizer ----------------------------- *)
\* ~_init() runs, once, when the process is torn down
FinalizerBegin ==
    /\ fpc = "none"
    /\ fpc' = "stop_write"
    /\ fidx' = 0
    /\ UNCHANGED <<qvars, spokes, sflag, joined, cursor, isStarted, tpLock,
                   queueMonitors, cpc, cspoke, ctask, wpc, wtask, submitted,
                   landed, done>>

\* (mutant) stop() wakes the waiters and leaves the flag as it is
SpokeStopWriteNothing ==
    /\ fpc = "stop_write"
    /\ fpc' = "stop_wake"
    /\ UNCHANGED <<qvars, spokes, sflag, fidx, joined, cursor, isStarted, tpLock,
                   queueMonitors, cpc, cspoke, ctask, wpc, wtask, submitted,
                   landed, done>>

\* stop() on spoke fidx: terminateFlag = true;   (no lock is held)
SpokeStopWrite ==
    /\ fpc = "stop_write"
    /\ sflag' = [sflag EXCEPT ![fidx] = IF @ = "clear" THEN "stored" ELSE @]
    /\ fpc' = "stop_wake"
    /\ UNCHANGED <<qvars, spokes, fidx, joined, cursor, isStarted, tpLock,
                   queueMonitors, cpc, cspoke, ctask, wpc, wtask, submitted,
                   landed, done>>

\* stop() on spoke fidx: wakeWaiters(), that is lock, c.notify_all(), unlock
SpokeStopWake ==
    /\ fpc = "stop_wake"
    /\ sflag' = [sflag EXCEPT ![fidx] = IF @ = "stored" THEN "set" ELSE @]
    /\ wpc' = Wake(fidx)
    /\ fpc' = "stop_notify"
    /\ UNCHANGED <<qvars, spokes, fidx, joined, cursor, isStarted, tpLock,
                   queueMonitors, cpc, cspoke, ctask, wtask, submitted,
                   landed, done>>

\* stop() on spoke fidx: lock, c.notify_all(), unlock; then the next spoke,
\* and after the last spoke the joins
SpokeStopNotify ==
    /\ fpc = "stop_notify"
    /\ sflag' = [sflag EXCEPT ![fidx] = IF @ = "stored" THEN "set" ELSE @]
    /\ wpc' = Wake(fidx)
    /\ IF fidx + 1 < nThreads
       THEN fpc' = "stop_write" /\ fidx' = fidx + 1
       ELSE fpc' = "join" /\ fidx' = 0
    /\ UNCHANGED <<qvars, spokes, joined, cursor, isStarted, tpLock,
                   queueMonitors, cpc, cspoke, ctask, wtask, submitted,
                   landed, done>>

\* the finalizer joins the next worker thread of queueMonitors once that
\* thread has ended; after the last one it is done
FinalizerJoin ==
    /\ fpc = "join"
    /\ IF fidx < Len(queueMonitors)
       THEN /\ wpc[queueMonitors[fidx + 1]] = "exited"
            /\ joined' = Append(joined, queueMonitors[fidx + 1])
            /\ fidx' = fidx + 1
            /\ UNCHANGED fpc
       ELSE /\ fpc' = "done"
            /\ fidx' = 0
            /\ UNCHANGED joined
    /\ UNCHANGED <<qvars, spokes, sflag, cursor, isStarted, tpLock, queueMonitors,
                   cpc, cspoke, ctask, wpc, wtask, submitted, landed,
                   done>>

\* the steps of the finalizer once it has begun
FinalizerGoesOn ==
    \/ SpokeStopWrite
    \/ SpokeStopWake
    \/ SpokeStopNotify
    \/ FinalizerJoin

finalizer ==
    \/ FinalizerBegin
    \/ FinalizerGoesOn

Init == QueueInit /\ track = FALSE /\ PoolInit

\* the client of the FIFO scenario records the values pushed and returned
InitFifo == QueueInit /\ track = TRUE /\ PoolInit

\* --- Spec: any thread calls any member function
AllOps == {"dequeue", "wait_for_dequeue", "nonBlockingDequeue", "clear",
           "wakeWaiters", "wait", "timed_wait", "stop", "size"}

CallAny(t) ==
    \/ \E v \in Values : Call(t, "enqueue", v)
    \/ \E op \in AllOps : Call(t, op, shutdownObject)

Next ==
    \E t \in Threads :
        \/ CallAny(t)
        \/ enqueue(t)
        \/ dequeue(t)
        \/ wait_for_dequeue(t)
        \/ nonBlockingDequeue(t)
        \/ clear(t)
        \/ wakeWaiters(t)
        \/ wait(t)
        \/ timed_wait(t)
        \/ stop(t)
        \/ size(t)
        \/ SpuriousWakeup(t)
        \/ Timeout(t)

Spec == Init /\ [][Next]_vars

\* --- SpecStop: producers, blocking consumers and threads that stop, clear
\* and wake
StopOps == {"dequeue", "clear", "wakeWaiters", "stop"}

CallStop(t) ==
    \/ \E v \in Values : Call(t, "enqueue", v)
    \/ \E op \in StopOps : Call(t, op, shutdownObject)

NextStop ==
    \E t \in Threads :
        \/ CallStop(t)
        \/ enqueue(t)
        \/ dequeue(t)
        \/ clear(t)
        \/ wakeWaiters(t)
        \/ stop(t)
        \/ SpuriousWakeup(t)

SpecStop == Init /\ [][NextStop]_vars

\* --- SpecFifo: a queue that is never stopped; every thread enqueues and
\* reads size(), one thread (the consumer) calls dequeue()
Consumer == NumThreads

CallFifo(t) ==
    \/ \E v \in Values : Call(t, "enqueue", v)
    \/ Call(t, "size", shutdownObject)
    \/ t = Consumer /\ Call(t, "dequeue", shutdownObject)

NextFifo ==
    \E t \in Threads :
        \/ CallFifo(t)
        \/ enqueue(t)
        \/ dequeue(t)
        \/ size(t)
        \/ SpuriousWakeup(t)

SpecFifo == InitFifo /\ [][NextFifo]_vars

\* --- SpecStopLive: producers, blocking consumers and stop(), with every
\* thread that can take a step of its call eventually taking one
\* (the value enqueued plays no part in waking a consumer: one is used)
CallStopLive(t) ==
    \/ Call(t, "enqueue", CHOOSE v \in Values : TRUE)
    \/ Call(t, "dequeue", shutdownObject)
    \/ Call(t, "stop", shutdownObject)

NextStopLive ==
    \E t \in Threads :
        \/ CallStopLive(t)
        \/ enqueue(t)
        \/ dequeue(t)
        \/ wakeWaiters(t)
        \/ stop(t)
        \/ SpuriousWakeup(t)

\* the steps of thread t's call in progress
Running(t) == enqueue(t) \/ dequeue(t) \/ wakeWaiters(t) \/ stop(t)

SpecStopLive ==
    /\ Init
    /\ [][NextStopLive]_vars
    /\ \A t \in Threads : WF_vars(Running(t))

\* --- SpecEnqLive: a queue that is never stopped, producers and blocking
\* consumers, with every thread that can take a step of its call eventually
\* taking one; a wait may also end spuriously
CallEnqLive(t) ==
    \/ Call(t, "enqueue", CHOOSE v \in Values : TRUE)
    \/ Call(t, "dequeue", shutdownObject)

NextEnqLive ==
    \E t \in Threads :
        \/ CallEnqLive(t)
        \/ enqueue(t)
        \/ dequeue(t)
        \/ SpuriousWakeup(t)

SpecEnqLive ==
    /\ Init
    /\ [][NextEnqLive]_vars
    /\ \A t \in Threads : WF_vars(enqueue(t) \/ dequeue(t))

\* --- SpecWait: every thread enqueues, wakes and stops; one thread (the
\* consumer) waits with wait(), wait(timeout) and wait_for_dequeue(), so
\* that nobody removes an item while it waits
WaitOps == {"wait", "timed_wait", "wait_for_dequeue"}

CallWait(t) ==
    \/ \E v \in Values : Call(t, "enqueue", v)
    \/ Call(t, "wakeWaiters", shutdownObject)
    \/ Call(t, "stop", shutdownObject)
    \/ t = Consumer /\ \E op \in WaitOps : Call(t, op, shutdownObject)

NextWait ==
    \E t \in Threads :
        \/ CallWait(t)
        \/ enqueue(t)
        \/ wait_for_dequeue(t)
        \/ wakeWaiters(t)
        \/ wait(t)
        \/ timed_wait(t)
        \/ stop(t)
        \/ SpuriousWakeup(t)
        \/ Timeout(t)

SpecWait == Init /\ [][NextWait]_vars

(* ======================= properties of the queue ======================== *)

IsPrefix(s, r) == Len(s) <= Len(r) /\ SubSeq(r, 1, Len(s)) = s

\* no call is in progress
Quiescent == \A t \in Threads : pc[t] = "idle"

\* C1 (SpecFifo): on a queue that is never stopped, with one consumer
\* calling dequeue(), the values dequeue() has returned are the first of the
\* values enqueued, in enqueue order, and they are all of them once the queue
\* is empty and no call is in progress: no item is lost, duplicated or
\* reordered.
C1_Fifo ==
    /\ IsPrefix(deqd, enqd)
    /\ (Quiescent /\ q = <<>>) => deqd = enqd

\* C2 (SpecStop): a dequeue() called after a stop() has returned returns the
\* sentinel, without waiting on c and without popping q, whatever q holds.
C2_DequeueAfterStop ==
    \A t \in Threads :
        (ret[t].op = "dequeue" /\ ret[t].after) =>
            (ret[t].sentinel /\ ~ret[t].took /\ ~ret[t].blocked)

\* a dequeue() called after stop() has returned while an item is queued
C2_Witness ==
    \E t \in Threads :
        ret[t].op = "dequeue" /\ ret[t].after /\ ret[t].sentinel /\ q # <<>>

\* C3 (Spec): a nonBlockingDequeue() called after a stop() has returned
\* reports found = false.
C3_NonBlockingAfterStop ==
    \A t \in Threads :
        (ret[t].op = "nonBlockingDequeue" /\ ret[t].after) => ~ret[t].found

\* C4 (Spec): a wait_for_dequeue() that was called after a stop() has
\* returned, or whose wait was ended by stop(), reports found = false and
\* pops nothing.
C4_TimedDequeueAfterStop ==
    \A t \in Threads :
        (ret[t].op = "wait_for_dequeue" /\ (ret[t].after \/ ret[t].cause = "stop"))
            => (~ret[t].found /\ ~ret[t].took /\ ~ret[t].ub)

\* C6 (Spec): a wait_for_dequeue() that reports found = true has popped an
\* item that was at the head of q; it never runs front()/pop() on an empty q.
C6_TimedDequeueFound ==
    \A t \in Threads :
        (ret[t].op = "wait_for_dequeue" /\ ret[t].found) =>
            (ret[t].took /\ ~ret[t].ub)

StopLabels ==
    {"stop_write", "stop_ww_lock", "stop_ww_notify", "stop_lock", "stop_notify"}

\* C7 (SpecStop): the flag, once true, is true in every later state and is
\* true when a stop() has returned; no step of a stop() changes q; and a
\* stop() called after a stop() has returned changes neither q nor the flag.
C7_StopFrame ==
    [][/\ terminateFlag => terminateFlag'
       /\ stopReturned' => terminateFlag'
       /\ \A t \in Threads :
            (pc[t] \in StopLabels /\ pc'[t] # pc[t]) =>
                /\ q' = q
                /\ ret[t].after => terminateFlag' = terminateFlag]_vars

\* a second stop() has returned while an item is queued
C7_Witness ==
    \E t \in Threads : ret[t].op = "stop" /\ ret[t].after /\ q # <<>>

\* C8 (SpecFifo): with no dequeue so far, size() returns the number of
\* enqueue() calls that have pushed, whichever threads made them.
C8_Size ==
    \A t \in Threads :
        (ret[t].op = "size" /\ deqd = <<>>) => ret[t].k = ret[t].n

\* line 109 has run in some stop()
StopWritten == terminateFlag \/ flagBuf # {}

\* C5 (SpecStopLive): a consumer waiting in dequeue() when a stop() has
\* stored the flag eventually returns, and it returns the sentinel once the
\* store is visible: no consumer stays blocked after stop().
C5_BlockedConsumerWoken ==
    \A t \in Threads :
        /\ (pc[t] = "deq_wait" /\ StopWritten) ~> (pc[t] = "idle")
        /\ (pc[t] = "deq_wait" /\ terminateFlag) ~>
                (pc[t] = "idle" /\ ret[t].op = "dequeue" /\ ret[t].sentinel)

\* a consumer that waited in dequeue() was woken by stop() and returned the
\* sentinel
C5_Witness ==
    \E t \in Threads :
        /\ ret[t].op = "dequeue" /\ ret[t].sentinel
        /\ ret[t].blocked /\ ret[t].cause = "stop"

C15_TimedDequeueNonEmpty ==
    \A t \in Threads :
        (ret[t].op = "wait_for_dequeue" /\ ret[t].blocked /\ ~StopWritten
         /\ ~ret[t].found) => ret[t].had = 0

\* the threads inside a member function's steps that change q
InMutation ==
    {t \in Threads : pc[t] \in {"enq_read", "enq_write", "deq_check", "deq_loop",
                                 "wfd_check", "wfd_after", "nbd_body",
                                 "clear_body"}}

\* C16 (Spec): at most one thread is inside the steps of enqueue, dequeue,
\* wait_for_dequeue, nonBlockingDequeue and clear that change q, and a thread
\* that has just stored terminateFlag (line 109) holds m exclusively.
C16_MutualExclusion ==
    /\ Cardinality(InMutation) <= 1
    /\ \A t \in Threads : pc[t] = "stop_ww_lock" => mExcl = {t}

\* C17 (SpecWait): when wait() returns, q holds an item or the caller reads
\* terminateFlag as true, nobody having removed an item meanwhile.
C17_WaitReturns ==
    \A t \in Threads :
        ret[t].op = "wait" => (ret[t].k > 0 \/ ret[t].sentinel)

\* C18 (SpecWait): when wait(timeout) returns true q holds an item, nobody
\* having removed one meanwhile; in particular it returns false when stop()
\* or wakeWaiters() ended its wait with q empty.
C18_TimedWaitTrue ==
    \A t \in Threads :
        (ret[t].op = "timed_wait" /\ ret[t].found) => ret[t].k > 0

(* ================== the pool's clients and properties =================== *)
\* --- SpecPool: callers pass tasks to run() and call startup(); the workers
\* run
Submit(c) == submitted < MaxTasks /\ RunGetSpoke(c)

NextPool ==
    \/ \E c \in Callers : Submit(c) \/ RunEnqueue(c) \/ startup(c)
    \/ \E w \in Spokes : queueListener(w) \/ WorkerSpurious(w)

SpecPool == Init /\ [][NextPool]_vars

\* the same, where the finalizer runs
SubmitShut(c) == submitted < MaxShutTasks /\ RunGetSpoke(c)

\* startup() called while the pool is not started
StartupEarly(c) ==
    \/ ~isStarted /\ StartupCall(c)
    \/ StartupLock(c)
    \/ StartupBody(c)

\* a caller inside run() or startup() goes on; a caller waiting for tpLock
\* gets it if it is free again and again
CallerFair(c) ==
    /\ WF_vars(RunEnqueue(c) \/ StartupBody(c))
    /\ SF_vars(StartupLock(c))

\* --- SpecPoolLive: callers that pass tasks to run() at any time and call
\* startup() until the pool is started; a caller inside a call goes on and a
\* worker that can take a step takes one
SubmitLive(c) == submitted < MaxLiveTasks /\ RunGetSpoke(c)

NextPoolLive ==
    \/ \E c \in LiveCallers : SubmitLive(c) \/ RunEnqueue(c) \/ StartupEarly(c)
    \/ \E w \in Spokes : queueListener(w) \/ WorkerSpurious(w)

SpecPoolLive ==
    /\ Init
    /\ [][NextPoolLive]_vars
    /\ \A c \in LiveCallers : CallerFair(c)
    /\ \A w \in Spokes : WF_vars(queueListener(w))

\* --- SpecStartup: callers that call startup() at any time, and pass a few
\* tasks to run()
NextStartup ==
    \/ \E c \in Callers : SubmitShut(c) \/ RunEnqueue(c) \/ startup(c)
    \/ \E w \in Spokes : queueListener(w) \/ WorkerSpurious(w)

SpecStartup ==
    /\ Init
    /\ [][NextStartup]_vars
    /\ \A c \in Callers : CallerFair(c)
    /\ \A w \in Spokes : WF_vars(queueListener(w))

\* --- SpecLateStart: tasks are passed to run() only while the pool is not
\* started
SubmitEarly(c) == ~isStarted /\ SubmitLive(c)

NextLateStart ==
    \/ \E c \in LiveCallers : SubmitEarly(c) \/ RunEnqueue(c) \/ StartupEarly(c)
    \/ \E w \in Spokes : queueListener(w) \/ WorkerSpurious(w)

SpecLateStart ==
    /\ Init
    /\ [][NextLateStart]_vars
    /\ \A c \in LiveCallers : CallerFair(c)
    /\ \A w \in Spokes : WF_vars(queueListener(w))

\* --- SpecShutdown: callers, workers and the finalizer, which begins at
\* any time on a started pool and goes on once begun; every task body ends
NextShutdown ==
    \/ \E c \in LiveCallers : SubmitShut(c) \/ RunEnqueue(c) \/ StartupEarly(c)
    \/ \E w \in Spokes : queueListener(w) \/ WorkerSpurious(w)
    \/ isStarted /\ finalizer

SpecShutdown ==
    /\ Init
    /\ [][NextShutdown]_vars
    /\ \A c \in LiveCallers : CallerFair(c)
    /\ \A w \in Spokes : WF_vars(queueListener(w))
    /\ WF_vars(FinalizerGoesOn)

\* how many times task k occurs in sequence s
Count(s, k) == Cardinality({i \in 1..Len(s) : s[i] = k})

\* how many times task k has been run, by all workers
Runs(k) ==
    Cardinality({p \in UNION {{<<w, i>> : i \in 1..Len(done[w])} : w \in Spokes} :
                    done[p[1]][p[2]] = k})

\* no run() is between its getSpoke() and its enqueue()
NoRunInFlight == \A c \in Callers : cpc[c] # "run_enqueue"

\* C9 (SpecPool): the j-th getSpoke() of run(), counting from 0, is followed
\* by an enqueue on spoke j mod nThreads, whatever the spokes hold; so when
\* the number of tasks passed is a multiple of nThreads, every spoke has
\* received the same number of them.
C9_Cyclic ==
    /\ \A s \in Spokes : \A i \in 1..Len(landed[s]) :
            (landed[s][i] - 1) % nThreads = s
    /\ \A c \in Callers :
            cpc[c] = "run_enqueue" => cspoke[c] = (ctask[c] - 1) % nThreads
    /\ (NoRunInFlight /\ submitted % nThreads = 0) =>
            \A s \in Spokes : Len(landed[s]) * nThreads = submitted

\* more than a round of tasks has been passed while the spokes held
\* different numbers of tasks: the task after the round is on spoke 0
\* again, which holds two tasks while another holds none
C9_Witness ==
    /\ submitted = nThreads + 1
    /\ NoRunInFlight
    /\ Len(landed[0]) = 2
    /\ Len(spokes[0]) = 2
    /\ \E s \in Spokes : landed[s] # <<>> /\ spokes[s] = <<>>

\* C10 (SpecPoolLive): in a started pool every task passed to run() is
\* eventually run; no task is run twice, and a task is run only by the worker
\* of the spoke it was enqueued on.  The record of run tasks only grows and
\* no task is run twice, so "again and again every task passed so far has
\* been run once" says of each task that it is eventually run once.
C10_ExecutedOnce ==
    /\ [](\A k \in LiveTasks :
            /\ Runs(k) <= 1
            /\ \A w \in Spokes :
                  Count(done[w], k) > 0 => Count(landed[w], k) > 0)
    /\ []<>(isStarted => \A k \in LiveTasks : k <= submitted => Runs(k) = 1)

\* more than a round of tasks has been passed, spoke 0 got two of them,
\* and every worker has run the tasks of its spoke
C10_Witness ==
    /\ isStarted
    /\ submitted = nThreads + 1
    /\ Len(done[0]) = 2
    /\ wtask[0] = 0 /\ spokes[0] = <<>>
    /\ \A w \in Spokes : Len(done[w]) >= 1 /\ done[w] = landed[w]

\* the worker threads startup() creates: one per spoke index, in order
OnePerSpoke == [i \in 1..nThreads |-> i - 1]

\* C11 (SpecStartup): however many callers are inside startup() at once and
\* however often it is called, the worker threads are created at most once,
\* one per spoke index 0..nThreads-1, and every caller of startup() returns
\* with the pool started.
C11_StartupOnce ==
    /\ [](/\ queueMonitors \in {<<>>, OnePerSpoke}
          /\ isStarted <=> queueMonitors = OnePerSpoke)
    /\ \A c \in Callers :
          (cpc[c] \in {"startup_lock", "startup_body"}) ~>
              (cpc[c] = "idle" /\ isStarted)

\* the pool is started and the workers run while one caller is inside
\* startup() and another waits for tpLock
C11_Witness ==
    /\ isStarted
    /\ queueMonitors = OnePerSpoke
    /\ \E c, d \in Callers :
          cpc[c] = "startup_body" /\ cpc[d] = "startup_lock"

\* the finalizer has ended: every spoke is stopped, every worker thread has
\* left its loop and has been joined
Stopped ==
    /\ fpc = "done"
    /\ \A s \in Spokes : sflag[s] = "set"
    /\ \A w \in Spokes : wpc[w] = "exited"
    /\ joined = queueMonitors

StopReturnedOn(s) ==
    \/ fpc \in {"join", "done"}
    \/ fpc \in {"stop_write", "stop_wake", "stop_notify"} /\ fidx > s

InHand(w) == IF wpc[w] = "execute" THEN <<wtask[w]>> ELSE <<>>

\* C19 (SpecPool): the tasks a worker has run and the one it is running are
\* the first tasks enqueued on its spoke, in the order they were enqueued;
\* a worker is inside at most one task.
C19_SpokeFifo ==
    \A w \in Spokes : IsPrefix(done[w] \o InHand(w), landed[w])

\* spoke 0's worker has run its two tasks, the second of which was passed to
\* run() after the task on spoke 1, which has not been run
C19_Witness ==
    /\ Len(done[0]) = 2
    /\ done[0] = landed[0]
    /\ landed[1] # <<>>
    /\ done[1] = <<>> /\ InHand(1) = <<>>

\* a step of run() by some caller
RunStep ==
    \E c \in Callers :
        cpc'[c] # cpc[c] /\ "run_enqueue" \in {cpc[c], cpc'[c]}

\* C20 (SpecLateStart): run() leaves isStarted and the worker threads as
\* they are; while the pool is not started no task is run; and with the
\* tasks passed to run() before the pool started, once it is started every
\* one of them is eventually run once, each spoke's in the order enqueued.
C20_RunNeverStarts ==
    /\ [][RunStep => (isStarted' = isStarted /\ queueMonitors' = queueMonitors)]_vars
    /\ [](~isStarted => \A w \in Spokes : wpc[w] = "none" /\ done[w] = <<>>)
    /\ [](\A w \in Spokes : IsPrefix(done[w], landed[w]))
    /\ []<>(isStarted => \A k \in LiveTasks : k <= submitted => Runs(k) = 1)

\* more than a round of tasks was passed to run() before the pool started,
\* and every worker has run the tasks of its spoke
C20_Witness ==
    /\ isStarted
    /\ submitted = MaxLiveTasks
    /\ \A w \in Spokes : done[w] = landed[w] /\ wpc[w] = "wait"
    /\ Len(done[0]) = 2

=============================================================================
